---- MODULE Spec2Model ----
(***************************************************************************)
(* A model of fitpy/likelihood.py: the LikelihoodFit session (the stored   *)
(* fit_result, the fit call and the result getters), the two cost          *)
(* functions LeastSquares and Poisson, the cost scan vcost_function and    *)
(* the covariance ellipse.                                                 *)
(*                                                                         *)
(* Conventions.  Python indices are 0-based, the model's are 1-based.      *)
(* Data, parameters and inverse-curvature entries are small integers, so   *)
(* all arithmetic of the code that stays rational is exact; the            *)
(* transcendental parts (sqrt, ln, chi2.sf) are kept as symbolic terms     *)
(* over their exact arguments, and IEEE/numpy special values (inf, nan,    *)
(* the numpy.ma `masked` constant) are explicit.                           *)
(***************************************************************************)
EXTENDS Integers, Sequences, FiniteSets, TLC

VARIABLES cls, x, y, ysigma, fit_result, ret, lastMin, fitted, refit

vars == <<cls, x, y, ysigma, fit_result, ret, lastMin, fitted, refit>>

(* ------------------------------ bounds -------------------------------- *)
MaxPar == 2

MaxData == 2

\* The values of y, of the parameters and of the inverse-curvature entries
Vals == {0, 1}

Sigmas == {-1, 0, 1}

(* --------------------------- program constants ------------------------ *)
DefaultNsigma == 1

DefaultNpoints == 100

CovarianceFactor == 2

(* ------------------------------ helpers ------------------------------- *)
RECURSIVE SumTo(_, _)
SumTo(f, n) == IF n = 0 THEN 0 ELSE f[n] + SumTo(f, n - 1)

RECURSIVE ProdTo(_, _)
ProdTo(f, n) == IF n = 0 THEN 1 ELSE f[n] * ProdTo(f, n - 1)

RECURSIVE Pow(_, _)
Pow(b, e) == IF e = 0 THEN 1 ELSE b * Pow(b, e - 1)

\* All sequences over S of length lo..hi.
SeqsOf(S, lo, hi) == UNION {[1..n -> S] : n \in lo..hi}

(* --------------------- floating-point result values ------------------- *)
\* A finite value num/den minus 2*sum of yy*ln(mu/yy) over the pairs in logs.
Num(n, d, l) == [kind |-> "num", num |-> n, den |-> d, logs |-> l]

Inf == [kind |-> "inf", num |-> 0, den |-> 1, logs |-> <<>>]

NaN == [kind |-> "nan", num |-> 0, den |-> 1, logs |-> <<>>]

NegInf == [kind |-> "-inf", num |-> 0, den |-> 1, logs |-> <<>>]

\* np.sqrt(v) of an exact v: nan for v < 0
Sqrt(v) == IF v < 0 THEN NaN ELSE [kind |-> "sqrt", num |-> v, den |-> 1, logs |-> <<>>]

\* c / sqrt(v) for v >= 0, in IEEE arithmetic
OverSqrt(c, v) ==
  IF v # 0 THEN [kind |-> "ratio", num |-> c, den |-> v, logs |-> <<>>]
  ELSE IF c = 0 THEN NaN ELSE IF c > 0 THEN Inf ELSE NegInf

\* numpy.ma.masked, the result of reducing an array whose elements are all masked
Masked == [kind |-> "masked", num |-> 0, den |-> 1, logs |-> <<>>]

(* ------------------------- the caller's model ------------------------- *)
\* model(x, par): a polynomial in x with coefficients par, vectorized in x
model(xs, par) ==
  [k \in 1..Len(xs) |-> SumTo([i \in 1..Len(par) |-> par[i] * Pow(xs[k], i - 1)], Len(par))]

(* ----------------------------- LeastSquares --------------------------- *)
\* One element of ((y - mu) / ysigma)**2 in IEEE arithmetic:
\* r/0 is +-inf for r # 0 and nan for r = 0.
LsqElement(r, s) ==
  IF s # 0 THEN Num(r * r, s * s, <<>>)
  ELSE IF r # 0 THEN Inf ELSE NaN

\* np.sum over the squared residuals
LsqSum(el) ==
  LET n == Len(el) IN
  IF \E k \in 1..n : el[k].kind = "nan" THEN NaN
  ELSE IF \E k \in 1..n : el[k].kind = "inf" THEN Inf
  ELSE LET den == ProdTo([k \in 1..n |-> el[k].den], n)
           num == SumTo([k \in 1..n |-> el[k].num * (den \div el[k].den)], n)
       IN Num(num, den, <<>>)

LeastSquares_cost_function(xs, ys, sig, par) ==
  LET mu == model(xs, par)
      residuals2 == [k \in 1..Len(ys) |-> LsqElement(ys[k] - mu[k], sig[k])]
  IN  LsqSum(residuals2)

(* -------------------------------- Poisson ----------------------------- *)
\* A masked array: data with a mask, TRUE meaning the element is left out.
MaskedArray(data, mask) == [k \in 1..Len(data) |-> [data |-> data[k], mask |-> mask[k]]]

\* np.log(mu1 / y1) on masked arrays: numpy.ma masks the elements outside the
\* domain of the division (divisor 0) and of the logarithm (argument <= 0),
\* in addition to those already masked.  The quotient m/yy is positive iff
\* m and yy are non-zero and of the same sign.
LogDomainMask(mu1, y1) ==
  [k \in 1..Len(y1) |->
     \/ y1[k].mask
     \/ mu1[k].mask
     \/ y1[k].data = 0
     \/ mu1[k].data * y1[k].data <= 0]

\* cost_array1 = 2 * (mu1 - y1) - 2 * y1 * np.log(mu1 / y1)
cost_array1(mu1, y1) ==
  LET m == LogDomainMask(mu1, y1) IN
  [k \in 1..Len(y1) |->
     [data |-> Num(2 * (mu1[k].data - y1[k].data), 1, <<<<mu1[k].data, y1[k].data>>>>),
      mask |-> m[k]]]

\* cost_array2 = 2 * mu2
cost_array2(mu2) ==
  [k \in 1..Len(mu2) |-> [data |-> Num(2 * mu2[k].data, 1, <<>>), mask |-> mu2[k].mask]]

RECURSIVE MaSumTo(_, _)
MaSumTo(a, n) ==
  IF n = 0 THEN Num(0, 1, <<>>)
  ELSE LET rest == MaSumTo(a, n - 1) IN
       IF a[n].mask THEN rest
       ELSE Num(rest.num + a[n].data.num, 1, rest.logs \o a[n].data.logs)

\* MaskedArray.sum(): the sum of the unmasked elements, and the constant
\* `masked` when every element is masked.
MaSum(a) ==
  IF \A k \in 1..Len(a) : a[k].mask THEN Masked ELSE MaSumTo(a, Len(a))

\* cost1 + cost2: `masked` absorbs
MaAdd(a, b) ==
  IF a.kind = "masked" \/ b.kind = "masked" THEN Masked
  ELSE Num(a.num + b.num, 1, a.logs \o b.logs)

Poisson_cost_function(xs, ys, par) ==
  LET mu == model(xs, par)
      zero_mask == [k \in 1..Len(ys) |-> ys[k] = 0]
      y1 == MaskedArray(ys, zero_mask)
      mu1 == MaskedArray(mu, zero_mask)
      cost1 == MaSum(cost_array1(mu1, y1))
      mu2 == MaskedArray(mu, [k \in 1..Len(ys) |-> ~zero_mask[k]])
      cost2 == MaSum(cost_array2(mu2))
  IN  MaAdd(cost1, cost2)

\* self.cost_function(par), dispatched on the class of the object
cost_function(par) ==
  IF cls = "LeastSquares" THEN LeastSquares_cost_function(x, y, ysigma, par)
  ELSE Poisson_cost_function(x, y, par)

(* --------------------------- the stored result ------------------------ *)
\* The object before any call of fit: it has no attribute fit_result.
NoResult ==
  [set |-> FALSE, x |-> <<>>, fun |-> NaN, success |-> FALSE, status |-> 0, hess_inv |-> <<>>]

\* An inverse-curvature matrix of dimension n: symmetric, with a the first
\* diagonal entry, 1 the other diagonal entries and b off the diagonal.
HessInv(n, a, b) ==
  [i \in 1..n |-> [j \in 1..n |-> IF i = j THEN (IF i = 1 THEN a ELSE 1) ELSE b]]

HessInvs(n) == {HessInv(n, a, b) : a \in Vals, b \in Vals}

\* The status codes of scipy's default minimizer: 0 converged, 2 precision loss
Statuses == {0, 2}

\* scipy.optimize.minimize(self.cost_function, x0=seed): an OptimizeResult of
\* the seed's dimension; which one is the minimizer's business.
minimize(seed) ==
  {[set |-> TRUE, x |-> p, fun |-> cost_function(p), success |-> (st = 0), status |-> st,
    hess_inv |-> h] :
      p \in [1..Len(seed) -> Vals], st \in Statuses, h \in HessInvs(Len(seed))}

Seeds == {[i \in 1..n |-> 1] : n \in 1..MaxPar}

(* ------------------------------ outcomes ------------------------------ *)
Return(op, args, v) == [op |-> op, args |-> args, kind |-> "value", exc |-> "", val |-> v]

Raise(op, args, e) == [op |-> op, args |-> args, kind |-> "raise", exc |-> e, val |-> <<>>]

\* No call is in progress and no outcome is pending.
Idle == [op |-> "", args |-> <<>>, kind |-> "value", exc |-> "", val |-> <<>>]

\* Every getter reads self.fit_result first: AttributeError when there is none.
Get(op, args, fr, v) ==
  IF fr.set THEN Return(op, args, v) ELSE Raise(op, args, "AttributeError")

(* ------------------------------- getters ------------------------------ *)
get_estimators(fr) == fr.x

get_covariance_matrix(fr) ==
  [i \in 1..Len(fr.hess_inv) |->
     [j \in 1..Len(fr.hess_inv) |-> CovarianceFactor * fr.hess_inv[i][j]]]

get_deviance(fr) == fr.fun

\* A variant of get_ndof with the operands exchanged
get_ndof_reversed(fr) == Len(get_estimators(fr)) - Len(x)

get_ndof(fr) == Len(x) - Len(get_estimators(fr))

get_errors(fr) ==
  LET covariance == get_covariance_matrix(fr) IN
  [i \in 1..Len(covariance) |-> Sqrt(covariance[i][i])]

\* covariance / np.tensordot(errors, errors, axes=0): the product of two
\* square roots is the square root of the product, nan if either is nan.
get_correlation_matrix(fr) ==
  LET covariance == get_covariance_matrix(fr)
      errors == get_errors(fr)
      n == Len(covariance)
  IN  [i \in 1..n |->
        [j \in 1..n |->
           IF errors[i].kind = "nan" \/ errors[j].kind = "nan" THEN NaN
           ELSE OverSqrt(covariance[i][j], errors[i].num * errors[j].num)]]

\* chi2.sf(deviance, ndof), kept symbolic
get_pvalue(fr) == [kind |-> "sf", deviance |-> get_deviance(fr), ndof |-> get_ndof(fr)]

get_minimize_result(fr) == fr

get_yfit(fr, xs) == model(xs, get_estimators(fr))

\* The central difference (model(x, est + h e_i) - model(x, est - h e_i)) / 2h
\* with h = 0.01 * errors[i].  The model is linear in par, so the difference
\* is 2h * model(x, e_i): the quotient is model(x, e_i) for h > 0, and 0/0 = nan
\* for h = 0; a nan error gives nan.
get_gradient(fr, xs) ==
  LET estimators == get_estimators(fr)
      errors == get_errors(fr)
      ndimensions == Len(errors)
  IN  [i \in 1..ndimensions |->
        LET unit == [j \in 1..Len(estimators) |-> IF j = i THEN 1 ELSE 0]
            d == model(xs, unit)
        IN  [k \in 1..Len(xs) |->
               IF errors[i].kind = "nan" \/ errors[i].num = 0 THEN NaN
               ELSE Num(d[k], 1, <<>>)]]

\* np.einsum("ik,ij,jk->k", gradient, covariance, gradient), then np.sqrt
get_yfit_error(fr, xs) ==
  LET gradient == get_gradient(fr, xs)
      covariance == get_covariance_matrix(fr)
      n == Len(gradient)
  IN  [k \in 1..Len(xs) |->
        IF \E i \in 1..n : gradient[i][k].kind = "nan" THEN NaN
        ELSE Sqrt(SumTo([i \in 1..n |->
                    SumTo([j \in 1..n |->
                       gradient[i][k].num * covariance[i][j] * gradient[j][k].num], n)], n))]

(* ------------------------- confidence ellipse ------------------------- *)
\* A variant of cholesky_ok that looks at the two variances only
cholesky_ok_diagonal(m) == m[1][1] > 0 /\ m[2][2] > 0

\* np.linalg.cholesky reads the lower triangle a = m[1][1], c = m[2][1],
\* d = m[2][2] of a 2x2 matrix and succeeds iff both pivots a and
\* d - c*c/a are positive.
cholesky_ok(m) == m[1][1] > 0 /\ m[1][1] * m[2][2] - m[2][1] * m[2][1] > 0

\* The factor L, symbolic: L11 = sqrt(a), L21 = c / sqrt(a),
\* L22 = sqrt((a*d - c*c) / a)
cholesky(m) ==
  [l11 |-> Sqrt(m[1][1]),
   l21 |-> OverSqrt(m[2][1], m[1][1]),
   l22 |-> [kind |-> "sqrt", num |-> m[1][1] * m[2][2] - m[2][1] * m[2][1],
            den |-> m[1][1], logs |-> <<>>]]

\* The module-level get_confidence_ellipse(center, cova, nsigma, npoints)
confidence_ellipse(op, args, center, cova, nsigma, npoints) ==
  IF ~cholesky_ok(cova) THEN Raise(op, args, "LinAlgError")
  ELSE Return(op, args, [center |-> center, cholesky_l |-> cholesky(cova),
                         nsigma |-> nsigma, npoints |-> npoints])

\* cova[np.ix_([xindex, yindex], [xindex, yindex])]
cova_pair(cova, xindex, yindex) ==
  <<<<cova[xindex][xindex], cova[xindex][yindex]>>,
    <<cova[yindex][xindex], cova[yindex][yindex]>>>>

\* LikelihoodFit.get_confidence_ellipse(xindex, yindex)
get_confidence_ellipse(fr, xindex, yindex, nsigma, npoints) ==
  LET op == "get_confidence_ellipse"
      args == <<xindex, yindex>>
  IN  IF ~fr.set THEN Raise(op, args, "AttributeError")
      ELSE IF xindex > Len(get_estimators(fr)) \/ yindex > Len(get_estimators(fr))
           THEN Raise(op, args, "IndexError")
      ELSE confidence_ellipse(op, args,
             <<get_estimators(fr)[xindex], get_estimators(fr)[yindex]>>,
             cova_pair(get_covariance_matrix(fr), xindex, yindex), nsigma, npoints)

(* ------------------------------ cost scan ----------------------------- *)
\* par[parx_index] = x, then par[pary_index] = y, on the copy of the estimators
set_par(par, parx_index, pary_index, xv, yv) ==
  [[par EXCEPT ![parx_index] = xv] EXCEPT ![pary_index] = yv]

\* The inner loop `for x in parx`, from position c on: the costs appended
RECURSIVE inner_loop(_, _, _, _, _, _)
inner_loop(est, parx_index, pary_index, parx, yv, c) ==
  IF c > Len(parx) THEN <<>>
  ELSE <<cost_function(set_par(est, parx_index, pary_index, parx[c], yv))>>
       \o inner_loop(est, parx_index, pary_index, parx, yv, c + 1)

\* The outer loop `for y in pary`, from position r on
RECURSIVE outer_loop(_, _, _, _, _, _)
outer_loop(est, parx_index, pary_index, parx, pary, r) ==
  IF r > Len(pary) THEN <<>>
  ELSE inner_loop(est, parx_index, pary_index, parx, pary[r], 1)
       \o outer_loop(est, parx_index, pary_index, parx, pary, r + 1)

\* A variant of reshape that fills the grid column by column
reshape_columns(flat, nrows, ncols) ==
  [r \in 1..nrows |-> [c \in 1..ncols |-> flat[(c - 1) * nrows + r]]]

\* np.reshape(flat, newshape=(nrows, ncols)), row-major
reshape(flat, nrows, ncols) ==
  [r \in 1..nrows |-> [c \in 1..ncols |-> flat[(r - 1) * ncols + c]]]

\* vcost_function(parx_index, pary_index, parx, pary).  The loop body runs
\* only when both candidate lists are non-empty; it is there that the
\* estimators are read and the two indices are used.
vcost_function(fr, parx_index, pary_index, parx, pary) ==
  LET op == "vcost_function"
      args == <<parx_index, pary_index, parx, pary>>
      runs == Len(parx) > 0 /\ Len(pary) > 0
  IN  IF runs /\ ~fr.set THEN Raise(op, args, "AttributeError")
      ELSE IF runs /\ (parx_index > Len(fr.x) \/ pary_index > Len(fr.x))
           THEN Raise(op, args, "IndexError")
      ELSE Return(op, args,
             reshape(IF runs THEN outer_loop(get_estimators(fr), parx_index, pary_index,
                                             parx, pary, 1)
                     ELSE <<>>,
                     Len(pary), Len(parx)))

\* A variant of vcost_store in which the loop writes into the stored vector
vcost_store_nocopy(fr, parx_index, pary_index, parx, pary) ==
  IF Len(parx) > 0 /\ Len(pary) > 0 /\ fr.set
     /\ parx_index <= Len(fr.x) /\ pary_index <= Len(fr.x)
  THEN [fr EXCEPT !.x = set_par(fr.x, parx_index, pary_index,
                                parx[Len(parx)], pary[Len(pary)])]
  ELSE fr

\* self.fit_result as vcost_function leaves it: the loop writes into a copy
\* of the estimators, never into the stored vector.
vcost_store(fr, parx_index, pary_index, parx, pary) == fr

(* --------------------------- initial states --------------------------- *)
\* Datasets have |x| = |y| = |ysigma|, x being the points 0, 1, ...
Xs(n) == [k \in 1..n |-> k - 1]

\* All datasets over the value sets: the inputs of the cost functions.
DatasetsOf(n) ==
  {[cls |-> "LeastSquares", x |-> Xs(n), y |-> yy, ysigma |-> sg] :
     yy \in [1..n -> Vals], sg \in [1..n -> Sigmas]}
  \cup
  {[cls |-> "Poisson", x |-> Xs(n), y |-> yy, ysigma |-> <<>>] : yy \in [1..n -> Vals]}

Datasets == UNION {DatasetsOf(n) : n \in 1..MaxData}

\* The datasets of the fit sessions: the counts 0, 1, 0, ... with unit sigmas.
SessionDatasets ==
  {[cls |-> c, x |-> Xs(n), y |-> [k \in 1..n |-> (k - 1) % 2],
    ysigma |-> IF c = "LeastSquares" THEN [k \in 1..n |-> 1] ELSE <<>>] :
     c \in {"LeastSquares", "Poisson"}, n \in 1..MaxData}

\* LeastSquares.__init__ / Poisson.__init__: pure data capture
Construct(D) ==
  /\ \E d \in D :
       /\ cls = d.cls
       /\ x = d.x
       /\ y = d.y
       /\ ysigma = d.ysigma
  /\ fit_result = NoResult
  /\ ret = Idle
  /\ lastMin = NoResult
  /\ fitted = FALSE
  /\ refit = FALSE

Init == Construct(SessionDatasets)

InitCost == Construct(Datasets)

(* ------------------------------- actions ------------------------------ *)
\* A variant of call_store that keeps a result already stored
call_store_keep(old, res) == IF old.set THEN old ELSE res

\* What __call__ leaves in self.fit_result: the assignment precedes the test
\* of success.
call_store(old, res) == res

\* __call__(seed)
Fit(seed) ==
  /\ ret.op = ""
  /\ \E res \in minimize(seed) :
    /\ fit_result' = call_store(fit_result, res)
    /\ ret' = IF res.success THEN Return("fit", <<seed>>, res.status)
              ELSE Raise("fit", <<seed>>, "FloatingPointError")
    /\ lastMin' = res
    /\ fitted' = (fitted \/ res.success)
    /\ refit' = (refit \/ (fit_result.set /\ fit_result # res))
    /\ UNCHANGED <<cls, x, y, ysigma>>

\* A call that only reads the object
Query(r) ==
  /\ ret.op = ""
  /\ ret' = r
  /\ UNCHANGED <<cls, x, y, ysigma, fit_result, lastMin, fitted, refit>>

CostFunction(par) == Query(Return("cost_function", <<par>>, cost_function(par)))

GetEstimators == Query(Get("get_estimators", <<>>, fit_result, get_estimators(fit_result)))

GetCovarianceMatrix ==
  Query(Get("get_covariance_matrix", <<>>, fit_result, get_covariance_matrix(fit_result)))

GetDeviance == Query(Get("get_deviance", <<>>, fit_result, get_deviance(fit_result)))

GetNdof == Query(Get("get_ndof", <<>>, fit_result, get_ndof(fit_result)))

GetErrors == Query(Get("get_errors", <<>>, fit_result, get_errors(fit_result)))

GetCorrelationMatrix ==
  Query(Get("get_correlation_matrix", <<>>, fit_result, get_correlation_matrix(fit_result)))

GetPvalue == Query(Get("get_pvalue", <<>>, fit_result, get_pvalue(fit_result)))

GetMinimizeResult ==
  Query(Get("get_minimize_result", <<>>, fit_result, get_minimize_result(fit_result)))

GetYfit(xs) == Query(Get("get_yfit", <<xs>>, fit_result, get_yfit(fit_result, xs)))

GetYfitError(xs) ==
  Query(Get("get_yfit_error", <<xs>>, fit_result, get_yfit_error(fit_result, xs)))

GetGradient(xs) == Query(Get("get_gradient", <<xs>>, fit_result, get_gradient(fit_result, xs)))

GetConfidenceEllipse(xindex, yindex) ==
  Query(get_confidence_ellipse(fit_result, xindex, yindex, DefaultNsigma, DefaultNpoints))

VcostFunction(parx_index, pary_index, parx, pary) ==
  /\ ret.op = ""
  /\ ret' = vcost_function(fit_result, parx_index, pary_index, parx, pary)
  /\ fit_result' = vcost_store(fit_result, parx_index, pary_index, parx, pary)
  /\ UNCHANGED <<cls, x, y, ysigma, lastMin, fitted, refit>>

\* The caller takes the value returned or the exception raised and goes on
\* to its next call.
Resume ==
  /\ ret.op # ""
  /\ ret' = Idle
  /\ UNCHANGED <<cls, x, y, ysigma, fit_result, lastMin, fitted, refit>>

\* The inputs of the calls
Pars == SeqsOf(Vals, 1, MaxPar)

XPoints == {<<2>>, <<0, 1>>}

Indices == 1..MaxPar

\* Candidate values of a scan: no point, one point, two points
ScanSeqs == {<<>>, <<0>>, <<0, 1>>}

Next ==
  \/ \E seed \in Seeds : Fit(seed)
  \/ \E par \in Pars : CostFunction(par)
  \/ GetEstimators
  \/ GetErrors
  \/ GetCovarianceMatrix
  \/ GetCorrelationMatrix
  \/ GetDeviance
  \/ GetNdof
  \/ GetPvalue
  \/ GetMinimizeResult
  \/ \E xs \in XPoints : GetYfit(xs)
  \/ \E xs \in XPoints : GetYfitError(xs)
  \/ \E xs \in XPoints : GetGradient(xs)
  \/ \E xi \in Indices, yi \in Indices : GetConfidenceEllipse(xi, yi)
  \/ \E xi \in Indices, yi \in Indices, parx \in ScanSeqs, pary \in ScanSeqs :
       VcostFunction(xi, yi, parx, pary)
  \/ Resume

Spec == Init /\ [][Next]_vars

NextCost ==
  \/ \E par \in Pars : CostFunction(par)
  \/ Resume

SpecCost == InitCost /\ [][NextCost]_vars

(* ------------------------------- claims ------------------------------- *)
\* The getters that answer from the stored result
Getters ==
  {"get_estimators", "get_covariance_matrix", "get_errors", "get_correlation_matrix",
   "get_deviance", "get_ndof", "get_pvalue", "get_yfit", "get_yfit_error", "get_gradient",
   "get_confidence_ellipse"}

Accessors == Getters \cup {"vcost_function"}

\* C1: no estimator of a failed minimizer run is published: whenever a getter
\* returns a value, the stored result it answered from is one of a run that
\* reported success.
C1_NoValueFromFailedRun ==
  (ret.op \in Getters /\ ret.kind = "value") => fit_result.success

\* C2: as long as no fit call has succeeded, every diagnostic accessor ends
\* in an error and returns no value.
C2_UnfittedAccessorsFail ==
  (~fitted /\ ret.op \in Accessors) => ret.kind = "raise"

\* C3: a successful fit stores the minimizer's result and returns its status
\* code; when the last fit call succeeded, estimators, deviance, covariance
\* (= 2 x inverse curvature) and ndof are those of that call's minimizer
\* result.
C3_AccessorsReadLastFit ==
  /\ (ret.op = "fit" /\ ret.kind = "value") =>
       (ret.val = lastMin.status /\ fit_result = lastMin)
  /\ (lastMin.set /\ lastMin.success
      /\ ret.op \in {"get_estimators", "get_deviance", "get_covariance_matrix", "get_ndof"}) =>
       /\ ret.kind = "value"
       /\ ret.op = "get_estimators" => ret.val = lastMin.x
       /\ ret.op = "get_deviance" => ret.val = lastMin.fun
       /\ ret.op = "get_covariance_matrix" =>
            ret.val = [i \in 1..Len(lastMin.x) |->
                         [j \in 1..Len(lastMin.x) |-> 2 * lastMin.hess_inv[i][j]]]
       /\ ret.op = "get_ndof" => ret.val = Len(x) - Len(lastMin.x)

\* C3 happens: a second fit replaced a different stored result, succeeded,
\* and the covariance was then asked for.
C3_Witness ==
  /\ refit
  /\ lastMin.success
  /\ ret.op = "get_covariance_matrix"
  /\ ret.kind = "value"

\* C4: a scan leaves the stored result (estimators, cost, inverse curvature)
\* as it was.
C4_ScanReadOnly == [][ret'.op = "vcost_function" => fit_result' = fit_result]_vars

\* C4 happens: a scan over non-empty candidate lists has run on a stored
\* result whose estimators differ from the last candidates written.
C4_Witness ==
  /\ ret.op = "vcost_function"
  /\ ret.kind = "value"
  /\ fit_result.set
  /\ Len(ret.args[3]) > 0
  /\ Len(ret.args[4]) > 0
  /\ fit_result.x[ret.args[2]] # ret.args[4][Len(ret.args[4])]

\* C5: the grid of a scan has len(pary) rows and len(parx) columns, and cell
\* [r][c] is the cost at the stored estimators with component parx_index set
\* to parx[c] and then component pary_index set to pary[r].
C5_ScanGrid ==
  (ret.op = "vcost_function" /\ ret.kind = "value") =>
    LET xi == ret.args[1]
        yi == ret.args[2]
        parx == ret.args[3]
        pary == ret.args[4]
    IN  /\ Len(ret.val) = Len(pary)
        /\ \A r \in 1..Len(pary) :
             /\ Len(ret.val[r]) = Len(parx)
             /\ \A c \in 1..Len(parx) :
                  ret.val[r][c] =
                    cost_function([[fit_result.x EXCEPT ![xi] = parx[c]] EXCEPT ![yi] = pary[r]])

\* C5 happens: a 2 x 2 grid over two different parameters whose off-diagonal
\* cells differ.
C5_Witness ==
  /\ ret.op = "vcost_function"
  /\ ret.kind = "value"
  /\ ret.args[1] # ret.args[2]
  /\ Len(ret.val) = 2
  /\ Len(ret.val[1]) = 2
  /\ ret.val[1][2] # ret.val[2][1]

\* C6: the Poisson cost fails with a domain error whenever mu <= 0 at a
\* point with y > 0.
C6_PoissonDomainError ==
  (/\ cls = "Poisson"
   /\ ret.op = "cost_function"
   /\ \E k \in 1..Len(y) : y[k] > 0 /\ model(x, ret.args[1])[k] <= 0)
  => ret.kind = "raise"

\* C7: the LeastSquares cost fails with a domain error whenever some ysigma
\* is zero or negative.
C7_SigmaDomainError ==
  (/\ cls = "LeastSquares"
   /\ ret.op = "cost_function"
   /\ \E k \in 1..Len(ysigma) : ysigma[k] <= 0)
  => ret.kind = "raise"

\* The branch-separated Poisson deviance over the points 1..n: 2*mu for
\* y = 0, and 2*(mu - y) - 2*y*ln(mu/y) for y # 0.
RECURSIVE BranchSum(_, _, _)
BranchSum(mu, ys, n) ==
  IF n = 0 THEN Num(0, 1, <<>>)
  ELSE LET rest == BranchSum(mu, ys, n - 1) IN
       IF ys[n] = 0 THEN Num(rest.num + 2 * mu[n], 1, rest.logs)
       ELSE Num(rest.num + 2 * (mu[n] - ys[n]), 1, Append(rest.logs, <<mu[n], ys[n]>>))

\* C8: the Poisson cost is the sum in which every point contributes exactly
\* once: 2*mu when y = 0, 2*(mu - y) - 2*y*ln(mu/y) when y # 0.
C8_EveryPointOnce ==
  (cls = "Poisson" /\ ret.op = "cost_function") =>
    /\ ret.kind = "value"
    /\ ret.val.kind = "num"
    /\ ret.val.num = BranchSum(model(x, ret.args[1]), y, Len(y)).num
    /\ ret.val.logs = BranchSum(model(x, ret.args[1]), y, Len(y)).logs

\* v' m v > 0 for every non-zero integer vector v; for a symmetric 2x2 integer
\* matrix the vectors with entries up to the largest entry of m decide it.
PositiveDefinite(m) ==
  LET Abs(a) == IF a < 0 THEN -a ELSE a
      Max2(a, b) == IF a < b THEN b ELSE a
      b == Max2(Max2(Abs(m[1][1]), Abs(m[1][2])), Max2(Abs(m[2][1]), Abs(m[2][2])))
  IN  \A v1 \in -b..b, v2 \in -b..b :
        (v1 # 0 \/ v2 # 0) =>
          v1 * v1 * m[1][1] + v1 * v2 * (m[1][2] + m[2][1]) + v2 * v2 * m[2][2] > 0

\* The 2x2 sub-matrix of 2 x inverse curvature that a call of
\* get_confidence_ellipse selected
SelectedPair ==
  LET i == ret.args[1]
      j == ret.args[2]
      h == fit_result.hess_inv
  IN  <<<<2 * h[i][i], 2 * h[i][j]>>, <<2 * h[j][i], 2 * h[j][j]>>>>

C10_Ndof ==
  (ret.op = "get_ndof" /\ fit_result.set) =>
    (ret.kind = "value" /\ ret.val = Len(x) - Len(fit_result.x))

\* C10 happens: more parameters than data points, ndof negative.
C10_Witness ==
  /\ ret.op = "get_ndof"
  /\ ret.kind = "value"
  /\ Len(fit_result.x) > Len(x)
  /\ ret.val < 0

====
